---- MODULE Spec2Model ----
(***************************************************************************)
(* State-machine model of cpl/frames.py (python-cpl): the per-tag frame    *)
(* configuration registry (FrameConfig, FrameList), the assembly of the    *)
(* frame list handed to a recipe (FrameList._aslist), the conversion of    *)
(* that list to absolute paths (mkabspath) and the decoding of a recipe's  *)
(* raw result (Result.__init__).                                           *)
(*                                                                         *)
(* Python strings are sequences of ASCII codes, so that str.lower() and    *)
(* os.path.abspath() are computed, not assumed.  Other Python values are   *)
(* records tagged with their type in the field "kind".                     *)
(***************************************************************************)
EXTENDS Integers, Sequences, FiniteSets, TLC

VARIABLES
    pc,           \* position of the operation being run
    frameConfig,  \* self._recipe._recipe.frameConfig(): the requirement groups
    entries,      \* what iterating the FrameList yielded, in the order it did
    recipe_tags,  \* self._recipe.tags: the recipe's tag vocabulary
    recipe_tag,   \* self._recipe.tag: the recipe's default tag
    values,       \* the values stored in the FrameList, by key
    name,         \* argument of _gettag
    data,         \* positional arguments of _aslist
    ndata,        \* keyword arguments of _aslist, as ndata.items()
    ret,          \* what __iter__, _gettag or _aslist returned
    frames,       \* mkabspath: the frames list, replaced in place
    frames0,      \* mkabspath: the frames list as it was passed in
    tmpdir,       \* mkabspath: the directory of the temporary files
    tmpfiles,     \* mkabspath: the list of temporary files
    i,            \* loop index of mkabspath and of Result.__init__
    files,        \* the files that exist, by absolute path
    files0,       \* the files that existed when the operation began
    res,          \* Result.__init__: the raw result (outputs, error)
    delete,       \* Result.__init__: the delete option
    self_dict,    \* Result.__init__: self.__dict__
    hdu,          \* Result.__init__: the image opened in this iteration
    fslog,        \* Result.__init__: file operations done, in order
    exc           \* the exception raised, if any

vars == <<pc, frameConfig, entries, recipe_tags, recipe_tag, values, name, data, ndata,
          ret, frames, frames0, tmpdir, tmpfiles, i, files, files0, res,
          delete, self_dict, hdu, fslog, exc>>

(***************************************************************************)
(* Bounds of the model.                                                    *)
(***************************************************************************)
MaxGroups == 2
MaxTriples == 1
MaxCount == 2
MaxVocab == 2
MaxData == 2
MaxKw == 2
MaxFrames == 3
MaxOutputs == 3

(***************************************************************************)
(* Strings.                                                                *)
(***************************************************************************)
FLAT == <<70, 76, 65, 84>>
flat == <<102, 108, 97, 116>>
Flat == <<70, 108, 97, 116>>
BIAS == <<66, 73, 65, 83>>
bias == <<98, 105, 97, 115>>
DARK == <<68, 65, 82, 75>>
dark == <<100, 97, 114, 107>>
XYZ == <<88, 89, 90>>
DIR == <<68, 73, 82>>
s_dir == <<100, 105, 114>>
s_tags == <<116, 97, 103, 115>>

\* str.lower() on one character and on a string
LowerChar(c) ==
    IF c >= 65 /\ c <= 90 THEN c + 32 ELSE c

lower(s) ==
    [k \in 1..Len(s) |-> LowerChar(s[k])]

\* Sequences over S of length at most n
SeqsUpTo(S, n) ==
    UNION {[1..k -> S] : k \in 0..n}

Range(s) ==
    {s[k] : k \in 1..Len(s)}

(***************************************************************************)
(* Python values.                                                          *)
(***************************************************************************)
None == -1
NoTag == <<>>
NoneV == [kind |-> "None"]
Str(s) == [kind |-> "str", s |-> s]
List(elems) == [kind |-> "list", elems |-> elems]
HDUList(id) == [kind |-> "HDUList", id |-> id]

\* Python truth value of a stored value: None, '' and [] are false
Truthy(v) ==
    CASE v.kind = "None" -> FALSE
      [] v.kind = "str" -> Len(v.s) > 0
      [] v.kind = "list" -> Len(v.elems) > 0
      [] OTHER -> TRUE

(***************************************************************************)
(* FrameConfig                                                             *)
(***************************************************************************)
FrameConfig(tag, min_frames, max_frames) ==
    [tag |-> tag,
     min |-> IF min_frames > 0 THEN min_frames ELSE None,
     max |-> IF max_frames > 0 THEN max_frames ELSE None]

Min2(a, b) == IF a <= b THEN a ELSE b
Max2(a, b) == IF a >= b THEN a ELSE b

extend_range(self, min_frames, max_frames) ==
    [self EXCEPT
       !.min = IF self.min # None
               THEN (IF min_frames # None THEN Min2(self.min, min_frames)
                     ELSE None)
               ELSE self.min,
       !.max = IF self.max # None
               THEN (IF max_frames # None THEN Max2(self.max, max_frames)
                     ELSE None)
               ELSE self.max]

(***************************************************************************)
(* FrameList                                                               *)
(***************************************************************************)
\* _key of a tag string and of a FrameConfig
_key(p) ==
    lower(p)

_key_entry(f) ==
    lower(f.tag)

\* The triples f of all groups, in the order the two loops of __iter__
\* visit them: configs[1] of each group in turn
RECURSIVE Triples(_)
Triples(groups) ==
    IF groups = <<>> THEN <<>>
    ELSE Head(groups)[2] \o Triples(Tail(groups))

\* s.setdefault(f[0], FrameConfig(...)) followed by fc.extend_range(f[1], f[2]);
\* the dict s is a function from the exact tag strings to the entries
SetDefaultExtend(s, f) ==
    IF f[1] \in DOMAIN s
    THEN [s EXCEPT ![f[1]] = extend_range(s[f[1]], f[2], f[3])]
    ELSE s @@ (f[1] :> extend_range(FrameConfig(f[1], f[2], f[3]), f[2], f[3]))

RECURSIVE IterFrom(_, _)
IterFrom(s, fs) ==
    IF fs = <<>> THEN s
    ELSE IterFrom(SetDefaultExtend(s, Head(fs)), Tail(fs))

\* The dict s when the loops of __iter__ are done
IterDict(groups) ==
    IterFrom(<<>>, Triples(groups))

\* The sequences that hold each element of S once
Orderings(S) ==
    {o \in [1..Cardinality(S) -> S] : \A a, b \in 1..Cardinality(S) : a # b => o[a] # o[b]}

\* s.itervalues(): the order of a dict is that of the hashes of its keys and
\* is not specified, so __iter__ is the set of the orders the entries may be
\* yielded in; an iteration yields one of them
__iter__(groups) ==
    Orderings({IterDict(groups)[t] : t \in DOMAIN IterDict(groups)})

\* RestrictedDict.__getitem__: the entry whose key is the key of the name
\* looked up, None when there is none
__getitem__(specs, key) ==
    IF \E k \in 1..Len(specs) : _key_entry(specs[k]) = _key(key)
    THEN specs[CHOOSE k \in 1..Len(specs) :
                 /\ _key_entry(specs[k]) = _key(key)
                 /\ \A j \in 1..(k - 1) : _key_entry(specs[j]) # _key(key)]
    ELSE NoneV

\* RestrictedDictEntry.value: the value stored under the entry's key
value(vals, f) ==
    IF _key_entry(f) \in DOMAIN vals THEN vals[_key_entry(f)] ELSE NoneV

\* The loop of _gettag over self._recipe.tags
RECURSIVE FirstTagMatch(_, _)
FirstTagMatch(tags, nm) ==
    IF tags = <<>> THEN NoTag
    ELSE IF lower(nm) = lower(Head(tags)) THEN Head(tags)
    ELSE FirstTagMatch(Tail(tags), nm)

\* _gettag comparing the name with the vocabulary without lowercasing
_gettag_exact(specs, tags, nm) ==
    IF __getitem__(specs, nm) # NoneV
    THEN __getitem__(specs, nm).tag
    ELSE IF \E k \in 1..Len(tags) : tags[k] = nm THEN nm ELSE NoTag

_gettag(specs, tags, nm) ==
    IF __getitem__(specs, nm) # NoneV
    THEN __getitem__(specs, nm).tag
    ELSE FirstTagMatch(tags, nm)

\* [ e(x) for x in s if keep(x) ] for the three comprehensions of _aslist
RECURSIVE StoredFrames(_, _, _)
StoredFrames(specs, vals, nd) ==
    IF specs = <<>> THEN <<>>
    ELSE LET f == Head(specs)
             rest == StoredFrames(Tail(specs), vals, nd)
         IN  IF /\ Truthy(value(vals, f))
                /\ f.tag \notin {nd[k][1] : k \in 1..Len(nd)}
             THEN <<<<f.tag, value(vals, f)>>>> \o rest
             ELSE rest

\* The keyword comprehension without its condition
KeywordFrames_unfiltered(specs, tags, nd) ==
    [k \in 1..Len(nd) |-> <<_gettag(specs, tags, nd[k][1]), nd[k][2]>>]

RECURSIVE KeywordFrames(_, _, _)
KeywordFrames(specs, tags, nd) ==
    IF nd = <<>> THEN <<>>
    ELSE LET rest == KeywordFrames(specs, tags, Tail(nd))
         IN  IF Len(_gettag(specs, tags, Head(nd)[1])) > 0
             THEN <<<<_gettag(specs, tags, Head(nd)[1]), Head(nd)[2]>>>> \o rest
             ELSE rest

\* The second loop of _aslist: a list that is no HDUList becomes one pair
\* for each of its elements
RECURSIVE Expand(_)
Expand(fr) ==
    IF fr = <<>> THEN <<>>
    ELSE LET f == Head(fr)
         IN  (IF f[2].kind = "list"
              THEN [k \in 1..Len(f[2].elems) |-> <<f[1], f[2].elems[k]>>]
              ELSE <<<<f[1], f[2]>>>>) \o Expand(Tail(fr))

\* _aslist with the keyword items put before the positional items
_aslist_kwfirst(specs, vals, tag, tags, d, nd) ==
    Expand(StoredFrames(specs, vals, nd)
           \o (IF nd # <<>> THEN KeywordFrames(specs, tags, nd) ELSE <<>>)
           \o (IF d # <<>> THEN [k \in 1..Len(d) |-> <<tag, d[k]>>] ELSE <<>>))

_aslist(specs, vals, tag, tags, d, nd) ==
    Expand(StoredFrames(specs, vals, nd)
           \o (IF d # <<>> THEN [k \in 1..Len(d) |-> <<tag, d[k]>>] ELSE <<>>)
           \o (IF nd # <<>> THEN KeywordFrames(specs, tags, nd) ELSE <<>>))

(***************************************************************************)
(* Inputs of the registry: requirement groups (raw, [calibration triples]) *)
(***************************************************************************)
RegTags == {FLAT, flat, BIAS}
CfgTriples == {<<t, mn, mx>> : t \in RegTags, mn \in 0..MaxCount, mx \in 0..MaxCount}
Groups == {<<<<DARK, 1, 1>>, c>> : c \in SeqsUpTo(CfgTriples, MaxTriples)}
FrameConfigs == SeqsUpTo(Groups, MaxGroups)

\* The variables an operation does not use keep these values
NoRecipe ==
    /\ frameConfig = <<>>
    /\ entries = <<>>
    /\ recipe_tags = <<>>
    /\ recipe_tag = DARK
    /\ values = <<>>

NoArgs ==
    /\ name = NoTag
    /\ data = <<>>
    /\ ndata = <<>>

NoMkabspath ==
    /\ frames = <<>>
    /\ frames0 = <<>>
    /\ tmpdir = <<>>
    /\ tmpfiles = <<>>

NoResult ==
    /\ res = <<>>
    /\ delete = FALSE
    /\ self_dict = <<>>
    /\ hdu = NoneV
    /\ fslog = <<>>

NoFiles ==
    /\ i = 0
    /\ files = {}
    /\ files0 = {}
    /\ exc = NoneV

(***************************************************************************)
(* Specification of the registry: one iteration over a FrameList.          *)
(***************************************************************************)
InitIter ==
    /\ pc = "start"
    /\ frameConfig \in FrameConfigs
    /\ entries = <<>>
    /\ recipe_tags = <<>>
    /\ recipe_tag = DARK
    /\ values = <<>>
    /\ ret = <<>>
    /\ NoArgs /\ NoMkabspath /\ NoResult /\ NoFiles

Iterate ==
    /\ pc = "start"
    /\ \E o \in __iter__(frameConfig) :
          /\ entries' = o
          /\ ret' = o
    /\ pc' = "iterated"
    /\ UNCHANGED <<frameConfig, recipe_tags,
                   recipe_tag, values, name, data,
                   ndata, frames, frames0, tmpdir, tmpfiles, i, files, files0,
                   res, delete, self_dict, hdu, fslog, exc>>

NextIter == Iterate

SpecIter == InitIter /\ [][NextIter]_vars

\* The declarations of tag t, in the order __iter__ visits them
DeclsOf(t) ==
    LET IsT(f) == f[1] = t
    IN  SelectSeq(Triples(frameConfig), IsT)

\* The declarations whose tag is t in any letter case
DeclsOfKey(k) ==
    LET IsK(f) == lower(f[1]) = k
    IN  SelectSeq(Triples(frameConfig), IsK)

\* The widening of all declarations d: a bound is unconstrained when one of
\* the declared bounds is 0, otherwise the least minimum and greatest maximum
WidenedMin(d) ==
    IF \E k \in 1..Len(d) : d[k][2] = 0 THEN None
    ELSE CHOOSE m \in {d[k][2] : k \in 1..Len(d)} :
           \A k \in 1..Len(d) : m <= d[k][2]

WidenedMax(d) ==
    IF \E k \in 1..Len(d) : d[k][3] = 0 THEN None
    ELSE CHOOSE m \in {d[k][3] : k \in 1..Len(d)} :
           \A k \in 1..Len(d) : m >= d[k][3]

\* C1: for every tag declared twice, the FrameConfig the iteration yields for
\* it has min None if one declared min is 0 and otherwise the smaller min, and
\* max None if one declared max is 0 and otherwise the larger max, whichever
\* declaration comes first.
C1_WidenTwice ==
    pc = "iterated" =>
        \A t \in RegTags :
            Len(DeclsOf(t)) = 2 =>
                \A k \in 1..Len(ret) :
                    ret[k].tag = t =>
                        /\ ret[k].min = WidenedMin(DeclsOf(t))
                        /\ ret[k].max = WidenedMax(DeclsOf(t))

\* C9: one iteration yields at most one FrameConfig for each lowercased tag
\* name, one for every tag declared, and it is the merge of all declarations
\* of the tag in any letter case.  (The merge is looked at where every
\* declared bound is positive; a bound declared as 0 is the case of C1.)
C9_KeysUnique ==
    pc = "iterated" =>
        /\ \A a, b \in 1..Len(ret) :
               a # b => _key_entry(ret[a]) # _key_entry(ret[b])
        /\ \A f \in Range(Triples(frameConfig)) :
               \E a \in 1..Len(ret) : _key_entry(ret[a]) = lower(f[1])
        /\ \A a \in 1..Len(ret) :
               LET d == DeclsOfKey(_key_entry(ret[a]))
               IN  (\A k \in 1..Len(d) : d[k][2] > 0 /\ d[k][3] > 0) =>
                       /\ ret[a].min = WidenedMin(d)
                       /\ ret[a].max = WidenedMax(d)

(***************************************************************************)
(* Inputs of tag resolution and of the assembly of a frame list.  The      *)
(* registry holds tags that differ in more than letter case.               *)
(***************************************************************************)
Group(c) == <<<<DARK, 1, 1>>, c>>

RegistryConfigs ==
    { <<>>,
      <<Group(<<<<FLAT, 1, 1>>>>)>>,
      <<Group(<<<<FLAT, 1, 1>>>>), Group(<<<<BIAS, 0, 2>>, <<FLAT, 1, 2>>>>)>> }

VocabTags == {FLAT, flat, DARK, dark}
Names == {FLAT, flat, Flat, BIAS, bias, DARK, dark, XYZ}

\* The tags of the registry, and the tags known to the recipe
RegistryTags ==
    DOMAIN IterDict(frameConfig)

Known ==
    RegistryTags \cup Range(recipe_tags)

Matches(nm) ==
    {T \in Known : lower(T) = lower(nm)}

(***************************************************************************)
(* Specification of tag resolution: one call of _gettag.                   *)
(***************************************************************************)
InitResolve ==
    /\ pc = "start"
    /\ frameConfig \in RegistryConfigs
    /\ entries = <<>>
    /\ recipe_tags \in SeqsUpTo(VocabTags, MaxVocab)
    /\ recipe_tag = DARK
    /\ values = <<>>
    /\ name \in Names
    /\ data = <<>>
    /\ ndata = <<>>
    /\ ret = <<>>
    /\ NoMkabspath /\ NoResult /\ NoFiles

GetTag ==
    /\ pc = "start"
    /\ \E o \in __iter__(frameConfig) :
          /\ entries' = o
          /\ ret' = _gettag(o, recipe_tags, name)
    /\ pc' = "resolved"
    /\ UNCHANGED <<frameConfig, recipe_tags,
                   recipe_tag, values, name, data,
                   ndata, frames, frames0, tmpdir, tmpfiles, i, files, files0,
                   res, delete, self_dict, hdu, fslog, exc>>

NextResolve == GetTag

SpecResolve == InitResolve /\ [][NextResolve]_vars

\* C7 as stated: _gettag(name) returns T for every registered or vocabulary
\* tag T that equals the name when both are lowercased, and None only when
\* no such tag exists.
C7_ResolvesToEveryMatch ==
    pc = "resolved" =>
        /\ \A T \in Matches(name) : ret = T
        /\ ret = NoTag => Matches(name) = {}

\* C7 as amended: _gettag(name) returns one canonical tag, the same for every
\* name that is equal when lowercased: the registered tag that equals the
\* name when both are lowercased if there is one, otherwise the first such
\* tag of the vocabulary; this is T when T is the only registered or
\* vocabulary tag equal to the name when lowercased; None is returned only
\* when no registered or vocabulary tag equals the name when lowercased.
C7_ResolvesToFirstMatch ==
    pc = "resolved" =>
        /\ ret = NoTag <=> Matches(name) = {}
        /\ ret # NoTag => ret \in Matches(name)
        /\ (\E T \in RegistryTags : lower(T) = lower(name)) => ret \in RegistryTags
        /\ (\A T \in RegistryTags : lower(T) # lower(name)) =>
              \A k \in 1..Len(recipe_tags) :
                  /\ lower(recipe_tags[k]) = lower(name)
                  /\ \A j \in 1..(k - 1) : lower(recipe_tags[j]) # lower(name)
                  => ret = recipe_tags[k]
        /\ \A T \in Matches(name) : Matches(name) = {T} => ret = T
        /\ \A n2 \in Names :
              lower(n2) = lower(name) =>
                  _gettag(entries, recipe_tags, n2) = ret

\* A name is resolved through the vocabulary to a tag of another letter case
C7_Witness ==
    /\ pc = "resolved"
    /\ ret # NoTag
    /\ ret # name
    /\ ret \notin RegistryTags
    /\ ret \in Range(recipe_tags)

(***************************************************************************)
(* Specification of the assembly of a frame list: one call of _aslist.     *)
(* Stored values, positional items and keyword items are drawn from        *)
(* disjoint sets of file names, so that a pair of the result shows where   *)
(* its item came from.                                                     *)
(***************************************************************************)
s1 == <<115, 49>>
s2 == <<115, 50>>
p1 == <<112, 49>>
p2 == <<112, 50>>
k1 == <<107, 49>>
k2 == <<107, 50>>

StoredVals == {Str(s1), List(<<Str(s1), Str(s2)>>), List(<<>>)}
DataVals == {Str(p1), List(<<Str(p2), HDUList(1)>>)}
KwVals == {Str(k1), List(<<Str(k1), Str(k2)>>)}
KwNames == {FLAT, flat, XYZ}
Vocabularies == {<<FLAT, DARK>>}

\* ndata.items(): the names of a dict are distinct
KwItems ==
    {nd \in SeqsUpTo(KwNames \X KwVals, MaxKw) :
        \A a, b \in 1..Len(nd) : a # b => nd[a][1] # nd[b][1]}

InitAssemble ==
    /\ pc = "start"
    /\ frameConfig \in RegistryConfigs
    /\ entries = <<>>
    /\ recipe_tags \in Vocabularies
    /\ recipe_tag = DARK
    /\ \E K \in SUBSET {_key(t) : t \in RegistryTags} : values \in [K -> StoredVals]
    /\ name = NoTag
    /\ data \in SeqsUpTo(DataVals, MaxData)
    /\ ndata \in KwItems
    /\ ret = <<>>
    /\ NoMkabspath /\ NoResult /\ NoFiles

AsList ==
    /\ pc = "start"
    /\ \E o \in __iter__(frameConfig) :
          /\ entries' = o
          /\ ret' = _aslist(o, values, recipe_tag, recipe_tags, data, ndata)
    /\ pc' = "assembled"
    /\ UNCHANGED <<frameConfig, recipe_tags,
                   recipe_tag, values, name, data,
                   ndata, frames, frames0, tmpdir, tmpfiles, i, files, files0,
                   res, delete, self_dict, hdu, fslog, exc>>

NextAssemble == AsList

SpecAssemble == InitAssemble /\ [][NextAssemble]_vars

\* The number of pairs an item stands for, and the item of its e-th pair
Width(v) == IF v.kind = "list" THEN Len(v.elems) ELSE 1
ElemAt(v, e) == IF v.kind = "list" THEN v.elems[e] ELSE v
Elems(v) == {ElemAt(v, e) : e \in 1..Width(v)}

RECURSIVE TotalWidth(_)
TotalWidth(b) ==
    IF b = <<>> THEN 0 ELSE Width(Head(b)[2]) + TotalWidth(Tail(b))

\* The block b of (tag, item) pairs stands in out right after position off:
\* each item by its pairs, consecutive and in element order
Covers(b, off, out) ==
    \A k \in 1..Len(b) :
        \A e \in 1..Width(b[k][2]) :
            LET at == off + TotalWidth(SubSeq(b, 1, k - 1)) + e
            IN  at \in 1..Len(out) /\ out[at] = <<b[k][1], ElemAt(b[k][2], e)>>

\* The registry entries with a non-empty stored value that no keyword names
StoredBlock ==
    LET Kept(f) == /\ Truthy(value(values, f))
                   /\ \A k \in 1..Len(ndata) : ndata[k][1] # f.tag
        kept == SelectSeq(entries, Kept)
    IN  [k \in 1..Len(kept) |-> <<kept[k].tag, value(values, kept[k])>>]

PositionalBlock ==
    [k \in 1..Len(data) |-> <<recipe_tag, data[k]>>]

\* The keyword items whose name some registry or vocabulary tag equals when
\* both are lowercased, under the tag _gettag gives
KeywordBlock ==
    LET Kept(it) == Matches(it[1]) # {}
        kept == SelectSeq(ndata, Kept)
    IN  [k \in 1..Len(kept) |->
            <<_gettag(entries, recipe_tags, kept[k][1]), kept[k][2]>>]

\* C5: the result is three blocks: the pairs of the stored values, then one
\* pair (default tag, item) for each positional item in argument order, then
\* the pairs of the keyword items; a list of N elements is N consecutive
\* pairs with the same tag in element order.  With no stored value, one
\* positional item that is no list and no keyword the result is the single
\* pair (default tag, item).
C5_ThreeBlocks ==
    pc = "assembled" =>
        /\ Len(ret) = TotalWidth(StoredBlock) + TotalWidth(PositionalBlock)
                      + TotalWidth(KeywordBlock)
        /\ Covers(StoredBlock, 0, ret)
        /\ Covers(PositionalBlock, TotalWidth(StoredBlock), ret)
        /\ Covers(KeywordBlock,
                  TotalWidth(StoredBlock) + TotalWidth(PositionalBlock), ret)
        /\ (/\ \A f \in Range(entries) : ~Truthy(value(values, f))
            /\ Len(data) = 1 /\ data[1].kind # "list"
            /\ ndata = <<>>)
           => ret = <<<<recipe_tag, data[1]>>>>

\* All three blocks are present and a positional list was expanded
C5_Witness ==
    /\ pc = "assembled"
    /\ TotalWidth(StoredBlock) = 2
    /\ Len(data) = 2 /\ data[1].kind = "list" /\ data[2].kind = "str"
    /\ TotalWidth(KeywordBlock) >= 2
    /\ Len(ret) >= 7

\* C6: a keyword item whose name no registry tag and no vocabulary tag
\* equals when lowercased raises no error and leaves no pair in the result;
\* every pair that comes from a keyword item carries the tag _gettag
\* returned for its name, never None.
C6_UnresolvedDropped ==
    pc = "assembled" =>
        LET nkw == Len(ret) - TotalWidth(StoredBlock) - TotalWidth(PositionalBlock)
            kw == SubSeq(ret, Len(ret) - nkw + 1, Len(ret))
            Resolved(it) == Matches(it[1]) # {}
            Unresolved(it) == Matches(it[1]) = {}
        IN  /\ exc = NoneV
            /\ nkw = TotalWidth(SelectSeq(ndata, Resolved))
            /\ \A k \in 1..Len(kw) :
                   /\ kw[k][1] # NoTag
                   /\ \E a \in 1..Len(ndata) :
                          /\ Resolved(ndata[a])
                          /\ kw[k][2] \in Elems(ndata[a][2])
                          /\ kw[k][1] = _gettag(entries,
                                                recipe_tags, ndata[a][1])
                          /\ kw[k][1] \in Matches(ndata[a][1])
            /\ \A a \in 1..Len(ndata) :
                   Unresolved(ndata[a]) =>
                       \A k \in 1..Len(ret) :
                           ret[k][2] \in Elems(ndata[a][2]) =>
                               \E b \in 1..Len(ndata) :
                                   /\ Resolved(ndata[b])
                                   /\ ret[k][2] \in Elems(ndata[b][2])

\* An unresolved keyword is dropped while a resolved one is kept
C6_Witness ==
    /\ pc = "assembled"
    /\ \E a, b \in 1..Len(ndata) :
           /\ Matches(ndata[a][1]) = {}
           /\ Matches(ndata[b][1]) # {}
           /\ ndata[a][2] = List(<<Str(k1), Str(k2)>>)
           /\ ndata[b][2] = Str(k1)
    /\ \A k \in 1..Len(ret) : ret[k][2] # Str(k2)
    /\ \E k \in 1..Len(ret) : ret[k][2] = Str(k1)

\* C2: for every registry tag with a non-empty stored value and every keyword
\* item whose name equals the tag when both are lowercased, the result holds
\* the pairs of the keyword value and no pair built from the stored value.
C2_KeywordOverrides ==
    pc = "assembled" =>
        \A f \in Range(entries) :
            \A a \in 1..Len(ndata) :
                (Truthy(value(values, f)) /\ lower(ndata[a][1]) = lower(f.tag)) =>
                    /\ \A e \in Elems(ndata[a][2]) :
                           \E k \in 1..Len(ret) : ret[k] = <<f.tag, e>>
                    /\ \A k \in 1..Len(ret) :
                           ~(ret[k][1] = f.tag /\ ret[k][2] \in Elems(value(values, f)))

(***************************************************************************)
(* Files and paths.                                                        *)
(***************************************************************************)
\* os.getcwd(): "/w"
cwd == <<47, 119>>

isabs(p) == Len(p) > 0 /\ p[1] = 47

\* os.path.join and os.path.abspath, for paths that are already normal
\* (no "..", no doubled separator)
join(a, b) == a \o <<47>> \o b

abspath(p) ==
    IF isabs(p) THEN p
    ELSE IF p = <<>> THEN cwd
    ELSE join(cwd, p)

\* The names tempfile.mkstemp may try: prefix, random part, suffix ".fits"
RandParts == {<<c>> : c \in 97..100}

TempName(prefix, rnd) ==
    prefix \o rnd \o <<46, 102, 105, 116, 115>>

(***************************************************************************)
(* Specification of mkabspath, one action for each branch of its loop.     *)
(***************************************************************************)
FrameItems == {Str(p1), Str(<<47>> \o p2), HDUList(1), HDUList(2)}
FrameTags == {FLAT, BIAS}
TmpDirs == {<<47, 116>>, <<116>>}

InitMkabspath ==
    /\ pc = "start"
    /\ NoRecipe /\ NoArgs /\ NoResult
    /\ ret = <<>>
    /\ frames0 \in SeqsUpTo(FrameTags \X FrameItems, MaxFrames)
    /\ frames = frames0
    /\ tmpdir \in TmpDirs
    /\ tmpfiles = <<>>
    /\ i = 0
    /\ files0 \in {{}, {abspath(join(tmpdir, TempName(FLAT \o <<45>>, <<97>>)))}}
    /\ files = files0
    /\ exc = NoneV

MkabspathStart ==
    /\ pc = "start"
    /\ tmpfiles' = <<>>
    /\ i' = 1
    /\ pc' = "loop"
    /\ UNCHANGED <<frameConfig, entries, recipe_tags,
                   recipe_tag, values, name, data,
                   ndata, ret, frames, frames0, tmpdir, files, files0, res,
                   delete, self_dict, hdu, fslog, exc>>

\* The HDUList branch with the file name not recorded in tmpfiles
MkabspathHDU_unrecorded ==
    /\ pc = "loop"
    /\ i <= Len(frames)
    /\ frames[i][2].kind = "HDUList"
    /\ \E rnd \in RandParts :
          LET tmpf == join(tmpdir, TempName(frames[i][1] \o <<45>>, rnd))
              filename == abspath(tmpf)
          IN  /\ filename \notin files
              /\ frames' = [frames EXCEPT ![i] = <<frames[i][1], Str(filename)>>]
              /\ files' = files \cup {filename}
    /\ i' = i + 1
    /\ UNCHANGED <<pc, frameConfig, entries, recipe_tags,
                   recipe_tag, values, name, data,
                   ndata, ret, frames0, tmpdir, tmpfiles, files0, res, delete,
                   self_dict, hdu, fslog, exc>>

\* isinstance(frame[1], pyfits.HDUList): mkstemp creates a file that did not
\* exist, under a name of its choice; the image is written to it
MkabspathHDU ==
    /\ pc = "loop"
    /\ i <= Len(frames)
    /\ frames[i][2].kind = "HDUList"
    /\ \E rnd \in RandParts :
          LET tmpf == join(tmpdir, TempName(frames[i][1] \o <<45>>, rnd))
              filename == abspath(tmpf)
          IN  /\ filename \notin files
              /\ frames' = [frames EXCEPT ![i] = <<frames[i][1], Str(filename)>>]
              /\ tmpfiles' = Append(tmpfiles, Str(filename))
              /\ files' = files \cup {filename}
    /\ i' = i + 1
    /\ UNCHANGED <<pc, frameConfig, entries, recipe_tags,
                   recipe_tag, values, name, data,
                   ndata, ret, frames0, tmpdir, files0, res, delete, self_dict,
                   hdu, fslog, exc>>

\* else: a file name
MkabspathFile ==
    /\ pc = "loop"
    /\ i <= Len(frames)
    /\ frames[i][2].kind # "HDUList"
    /\ frames' = [frames EXCEPT ![i] = <<frames[i][1], Str(abspath(frames[i][2].s))>>]
    /\ i' = i + 1
    /\ UNCHANGED <<pc, frameConfig, entries, recipe_tags,
                   recipe_tag, values, name, data,
                   ndata, ret, frames0, tmpdir, tmpfiles, files, files0, res,
                   delete, self_dict, hdu, fslog, exc>>

MkabspathReturn ==
    /\ pc = "loop"
    /\ i > Len(frames)
    /\ ret' = tmpfiles
    /\ pc' = "returned"
    /\ UNCHANGED <<frameConfig, entries, recipe_tags,
                   recipe_tag, values, name, data,
                   ndata, frames, frames0, tmpdir, tmpfiles, i, files, files0,
                   res, delete, self_dict, hdu, fslog, exc>>

NextMkabspath ==
    \/ MkabspathStart
    \/ MkabspathHDU
    \/ MkabspathFile
    \/ MkabspathReturn

SpecMkabspath == InitMkabspath /\ [][NextMkabspath]_vars

\* The positions of the list passed in that held an in-memory image
HDUPositions ==
    {k \in 1..Len(frames0) : frames0[k][2].kind = "HDUList"}

\* C8: after mkabspath returns the list has as many pairs as before, each
\* pair keeps its tag, every item is an absolute path, and the temporary
\* files returned are one path for each position that held an in-memory
\* image, equal to the item now at that position, all distinct, and none for
\* a position that held a file name.
C8_Materialized ==
    pc = "returned" =>
        /\ Len(frames) = Len(frames0)
        /\ \A k \in 1..Len(frames) :
               /\ frames[k][1] = frames0[k][1]
               /\ frames[k][2].kind = "str"
               /\ isabs(frames[k][2].s)
               /\ k \notin HDUPositions =>
                      frames[k][2].s = abspath(frames0[k][2].s)
        /\ Len(ret) = Cardinality(HDUPositions)
        /\ \A a, b \in 1..Len(ret) : a # b => ret[a] # ret[b]
        /\ \A k \in HDUPositions :
               /\ ret[Cardinality({h \in HDUPositions : h <= k})] = frames[k][2]
               /\ frames[k][2].s \notin files0
               /\ frames[k][2].s \in files

\* Two images under the same tag went to two files, next to a file name
C8_Witness ==
    /\ pc = "returned"
    /\ Len(frames0) = 3
    /\ frames0[1] = <<FLAT, HDUList(1)>>
    /\ frames0[2] = <<FLAT, Str(p1)>>
    /\ frames0[3] = <<FLAT, HDUList(2)>>
    /\ Len(ret) = 2
    /\ files0 # {}

(***************************************************************************)
(* Specification of Result.__init__: the check of the error flag, then for *)
(* each output the opening of its file, its removal and its grouping.      *)
(***************************************************************************)
o1 == <<111, 49>>
o2 == <<111, 50>>
o3 == <<111, 51>>
OutTags == {BIAS, bias, FLAT, DIR}
OutPaths == {o1, o2, join(cwd, o3)}
\* error message "err" and location "fn"; an input temporary of mkabspath
ErrMsg == <<101, 114, 114>>
ErrLoc == <<102, 110>>
InputTemp == join(<<47, 116>>, TempName(FLAT \o <<45>>, <<97>>))

CplError(msg) == [kind |-> "CplError", msg |-> msg]
IOError(path) == [kind |-> "IOError", msg |-> path]
AttributeError(attr) == [kind |-> "AttributeError", msg |-> attr]
PySet(elems) == [kind |-> "set", elems |-> elems]
\* The image pyfits.open gives for the n-th output, read from a file
Opened(n, path) == [kind |-> "HDUList", id |-> n, file |-> path]

InitResult ==
    /\ pc = "start"
    /\ NoRecipe /\ NoArgs /\ NoMkabspath
    /\ ret = <<>>
    /\ res \in {<<outs, <<flag, ErrMsg, ErrLoc>>>> :
                  outs \in SeqsUpTo(OutTags \X OutPaths, MaxOutputs),
                  flag \in BOOLEAN}
    /\ delete \in BOOLEAN
    /\ files0 = {abspath(p) : p \in OutPaths} \cup {InputTemp}
    /\ files = files0
    /\ self_dict = <<>>
    /\ hdu = NoneV
    /\ fslog = <<>>
    /\ i = 0
    /\ exc = NoneV

\* Result.__init__ with self.tags created before the error flag is looked at
ResultStart_tagsfirst ==
    /\ pc = "start"
    /\ self_dict' = (s_dir :> Str(cwd)) @@ (s_tags :> PySet({}))
    /\ IF res[2][1]
       THEN /\ exc' = CplError(res[2][2] \o <<32, 105, 110, 32>> \o res[2][3])
            /\ pc' = "raised"
            /\ i' = i
       ELSE /\ i' = 1
            /\ pc' = IF Len(res[1]) >= 1 THEN "open" ELSE "done"
            /\ exc' = exc
    /\ UNCHANGED <<frameConfig, entries, recipe_tags,
                   recipe_tag, values, name, data,
                   ndata, ret, frames, frames0, tmpdir, tmpfiles, files, files0,
                   res, delete, hdu, fslog>>

\* self.dir = os.getcwd(); raise CplError("%s in %s") if res[1][0], else
\* self.tags = set() and the loop over res[0] begins
ResultStart ==
    /\ pc = "start"
    /\ IF res[2][1]
       THEN /\ self_dict' = (s_dir :> Str(cwd))
            /\ exc' = CplError(res[2][2] \o <<32, 105, 110, 32>> \o res[2][3])
            /\ pc' = "raised"
            /\ i' = i
       ELSE /\ self_dict' = (s_dir :> Str(cwd)) @@ (s_tags :> PySet({}))
            /\ i' = 1
            /\ pc' = IF Len(res[1]) >= 1 THEN "open" ELSE "done"
            /\ exc' = exc
    /\ UNCHANGED <<frameConfig, entries, recipe_tags,
                   recipe_tag, values, name, data,
                   ndata, ret, frames, frames0, tmpdir, tmpfiles, files, files0,
                   res, delete, hdu, fslog>>

\* hdu = pyfits.open(os.path.abspath(frame)): fails when there is no file
ResultOpen ==
    /\ pc = "open"
    /\ LET path == abspath(res[1][i][2])
       IN  IF path \in files
           THEN /\ hdu' = Opened(i, path)
                /\ fslog' = Append(fslog, <<"open", path>>)
                /\ pc' = "remove"
                /\ exc' = exc
           ELSE /\ exc' = IOError(path)
                /\ pc' = "raised"
                /\ UNCHANGED <<hdu, fslog>>
    /\ UNCHANGED <<frameConfig, entries, recipe_tags,
                   recipe_tag, values, name, data,
                   ndata, ret, frames, frames0, tmpdir, tmpfiles, i, files,
                   files0, res, delete, self_dict>>

\* The removal done whether or not delete is set
ResultRemove_always ==
    /\ pc = "remove"
    /\ files' = files \ {abspath(res[1][i][2])}
    /\ fslog' = Append(fslog, <<"remove", abspath(res[1][i][2])>>)
    /\ pc' = "group"
    /\ UNCHANGED <<frameConfig, entries, recipe_tags,
                   recipe_tag, values, name, data,
                   ndata, ret, frames, frames0, tmpdir, tmpfiles, i, files0,
                   res, delete, self_dict, hdu, exc>>

\* if delete: os.remove(frame)
ResultRemove ==
    /\ pc = "remove"
    /\ IF delete
       THEN /\ files' = files \ {abspath(res[1][i][2])}
            /\ fslog' = Append(fslog, <<"remove", abspath(res[1][i][2])>>)
       ELSE UNCHANGED <<files, fslog>>
    /\ pc' = "group"
    /\ UNCHANGED <<frameConfig, entries, recipe_tags,
                   recipe_tag, values, name, data,
                   ndata, ret, frames, frames0, tmpdir, tmpfiles, i, files0,
                   res, delete, self_dict, hdu, exc>>

\* The three branches on self.__dict__[tag]; str and set have no append
ResultGroup ==
    /\ pc = "group"
    /\ LET tag == lower(res[1][i][1])
           next == IF i + 1 <= Len(res[1]) THEN "open" ELSE "done"
       IN  IF lower(tag) \notin DOMAIN self_dict
           THEN /\ self_dict' =
                      [a \in DOMAIN self_dict \cup {tag} |->
                          IF a = tag THEN hdu
                          ELSE IF a = s_tags
                               THEN PySet(self_dict[s_tags].elems \cup {tag})
                               ELSE self_dict[a]]
                /\ pc' = next
                /\ exc' = exc
           ELSE IF self_dict[tag].kind = "HDUList"
           THEN /\ self_dict' = [self_dict EXCEPT ![tag] = List(<<self_dict[tag], hdu>>)]
                /\ pc' = next
                /\ exc' = exc
           ELSE IF self_dict[tag].kind = "list"
           THEN /\ self_dict' = [self_dict EXCEPT
                                   ![tag] = List(Append(self_dict[tag].elems, hdu))]
                /\ pc' = next
                /\ exc' = exc
           ELSE /\ exc' = AttributeError(<<97, 112, 112, 101, 110, 100>>)
                /\ pc' = "raised"
                /\ self_dict' = self_dict
    /\ i' = i + 1
    /\ UNCHANGED <<frameConfig, entries, recipe_tags,
                   recipe_tag, values, name, data,
                   ndata, ret, frames, frames0, tmpdir, tmpfiles, files, files0,
                   res, delete, hdu, fslog>>

NextResult ==
    \/ ResultStart
    \/ ResultOpen
    \/ ResultRemove
    \/ ResultGroup

SpecResult == InitResult /\ [][NextResult]_vars

\* The positions of the outputs whose tag is key when lowercased, in order
OutputsOf(key) ==
    LET IsKey(n) == lower(res[1][n][1]) = key
    IN  SelectSeq([n \in 1..Len(res[1]) |-> n], IsKey)

OutputKeys ==
    {lower(res[1][n][1]) : n \in 1..Len(res[1])}

\* C3: every decode of outputs with the error flag unset, whatever the tags,
\* ends with self.tags the set of the distinct lowercased tags, with the
\* single opened image as the attribute of a tag that occurs once and with
\* the list of the k images in reported order for a tag that occurs k >= 2
\* times.  (A decode that fails to open a file is not counted.)
C3_GroupedByTag ==
    (/\ pc \in {"done", "raised"}
     /\ ~res[2][1]
     /\ exc.kind # "IOError") =>
        /\ pc = "done"
        /\ self_dict[s_tags] = PySet(OutputKeys)
        /\ \A key \in OutputKeys :
               LET at == OutputsOf(key)
               IN  /\ key \in DOMAIN self_dict
                   /\ Len(at) = 1 =>
                          self_dict[key] = Opened(at[1], abspath(res[1][at[1]][2]))
                   /\ Len(at) >= 2 =>
                          self_dict[key] =
                              List([k \in 1..Len(at) |->
                                      Opened(at[k], abspath(res[1][at[k]][2]))])

\* C4: a decode with the error flag set raises CplError with the message and
\* the location, whatever the outputs and the delete option; no file has
\* been opened or removed and no tag attribute and no tags set exists.
C4_ErrorFirst ==
    (res[2][1] /\ pc # "start") =>
        /\ pc = "raised"
        /\ exc = CplError(ErrMsg \o <<32, 105, 110, 32>> \o ErrLoc)
        /\ fslog = <<>>
        /\ files = files0
        /\ DOMAIN self_dict = {s_dir}

\* The error is raised with outputs reported and the delete option set
C4_Witness ==
    /\ pc = "raised"
    /\ res[2][1]
    /\ Len(res[1]) = 2
    /\ delete
    /\ exc.kind = "CplError"

\* C10: with delete set a file is removed only after it was opened, and when
\* the decode succeeds the files removed are the files of the outputs and no
\* other file; with delete not set no file is removed.
C10_RemovesOutputsOnly ==
    /\ \A k \in 1..Len(fslog) :
           fslog[k][1] = "remove" =>
               /\ delete
               /\ \E j \in 1..(k - 1) : fslog[j] = <<"open", fslog[k][2]>>
    /\ files \subseteq files0
    /\ \A p \in files0 \ files : \E k \in 1..Len(fslog) : fslog[k] = <<"remove", p>>
    /\ (pc = "done" /\ delete) =>
           files0 \ files = {abspath(res[1][n][2]) : n \in 1..Len(res[1])}
    /\ ~delete => files = files0

\* A decode of three outputs succeeded with delete set
C10_Witness ==
    /\ pc = "done"
    /\ delete
    /\ Len(res[1]) = 3
    /\ Cardinality(files0 \ files) = 3
    /\ InputTemp \in files

====
